---- MODULE Spec2Model ----
(***************************************************************************)
(* A model of node-tags-finder: the DataLoader of src/dataloader.js (an    *)
(* event emitter that reads and parses every file of a directory under a   *)
(* safety timer), the TagsFinder of src/tagsfinder.js (tag counting over   *)
(* the loaded JSON objects, with a per-tag cache) and the command line     *)
(* front end of src/unnamed/part_000, which wires the two to a terminal.   *)
(*                                                                         *)
(* JSON values are records [t, s, n, k, c]: t is the value's kind, s the   *)
(* characters of a string, n the value of a number or boolean, k the keys  *)
(* of an object and c the children of an object or an array.  A string is  *)
(* the sequence of its characters.                                         *)
(*                                                                         *)
(* Taken alone (LoaderSpec), the loader's 'ready', 'fatal' and 'error'     *)
(* listeners record the event and return: they call nothing back and do    *)
(* not end the process, and an exception that escapes a callback ends it.  *)
(* Under the front end (AppSpec) the listeners are those of part_000.      *)
(***************************************************************************)
EXTENDS Integers, Sequences, FiniteSets, TLC

\* ------------------------------------------------------------------ bounds

\* Files in the data directory (at most).
MaxFiles == 2

\* Calls of DataLoader.loadFiles in one run (at most).
MaxLoadCalls == 2

\* Documents of a corpus handed to TagsFinder.setData (at most).
MaxDocs == 1

\* Tags of one TagsFinder.process call (at most).
MaxTags == 2

\* Successful TagsFinder.setData calls in one run (at most).
MaxSetData == 2

\* Files in the data directory in the runs checked for termination (at most).
MaxWatchedFiles == 1

\* Lines read from the terminal in one run of the front end (at most).
MaxLines == 2

\* Characters of a line handed to sanitizeTags (at most).
MaxLineLen == 4

\* ------------------------------------------------------------- JSON values

Str(chars) == [t |-> "string", s |-> chars, n |-> 0, k |-> <<>>, c |-> <<>>]

Num(v) == [t |-> "number", s |-> <<>>, n |-> v, k |-> <<>>, c |-> <<>>]

Bool(v) == [t |-> "boolean", s |-> <<>>, n |-> v, k |-> <<>>, c |-> <<>>]

Null == [t |-> "null", s |-> <<>>, n |-> 0, k |-> <<>>, c |-> <<>>]

Undefined == [t |-> "undefined", s |-> <<>>, n |-> 0, k |-> <<>>, c |-> <<>>]

Arr(items) == [t |-> "array", s |-> <<>>, n |-> 0, k |-> <<>>, c |-> items]

Obj(keys, vals) == [t |-> "object", s |-> <<>>, n |-> 0, k |-> keys, c |-> vals]

\* The documents the data files hold, by file: an object holding an array of
\* strings, an object nested two deep and a boolean; a scalar string; an array
\* mixing strings, a number, null and a nested array; a scalar number.
DocList ==
    << Obj(<<"tags", "n", "m">>,
           <<Arr(<<Str(<<"a", "b">>), Str(<<"b">>)>>),
             Obj(<<"x">>, <<Arr(<<Str(<<"a", "b", "a">>)>>)>>),
             Bool(1)>>),
       Str(<<"a", "b">>),
       Arr(<<Str(<<"a", "a">>), Num(7), Null, Arr(<<Str(<<"b", "a">>)>>)>>),
       Num(0) >>

\* ---------------------------------------------------------- the DataLoader

VARIABLES
    dir,                  \* the directory: [err, files], files[i] the i-th file's fate
    cache,                \* DataLoader.cache
    cacheReady,           \* DataLoader.cacheReady
    filesToProcessCount,  \* DataLoader.filesToProcessCount
    filesProcessedCount,  \* DataLoader.filesProcessedCount
    safety,               \* DataLoader.safety: the last timer's handle, 0 when unset
    timers,               \* the pending 5000 ms timers, oldest first
    readdirs,             \* fs.readdir calls whose callback has not run
    scheduled,            \* scheduled[i]: setTimeout(.., 0) callbacks pending for file i
    reading,              \* reading[i]: fs.readFile calls pending for file i
    events,               \* the events emitted to the listeners, in order
    calls,                \* loadFiles calls made
    cycles,               \* loadFiles calls that went past the cacheReady guard
    waiting,              \* a loadFiles call was made and no 'ready' or 'fatal' since
    threw                 \* an exception escaped a callback: the process is gone

loaderVars ==
    <<dir, cache, cacheReady, filesToProcessCount, filesProcessedCount, safety,
      timers, readdirs, scheduled, reading, events, calls, cycles, waiting, threw>>

VARIABLES
    data,        \* TagsFinder.data, Undefined until setData succeeds
    tagsCache,   \* TagsFinder.cache: the own properties of the object, tag -> count
    sortImpl,    \* the Array.prototype.sort of the JavaScript engine in use
    lastOp,      \* the last TagsFinder call and how it ended
    lastTags,    \* when that was a process call that returned: its tags,
    lastResult,  \*   what it returned,
    lastWarm,    \*   whether it found the cache warm for its tags,
    lastLooked,  \*   its tagsToProcess (the tags it looked up),
    lastVisited, \*   the objects of this.data it ran _processObject on
    sets         \* setData calls that succeeded

finderVars ==
    <<data, tagsCache, sortImpl, lastOp, lastTags, lastResult, lastWarm, lastLooked,
      lastVisited, sets>>

VARIABLES
    defaultsFile,  \* the default tags file: [err, text]
    defaultTags,   \* the front end's defaultTags: [set, tags], unset until the file is read
    defaultReads,  \* fs.readFile calls on the default tags file whose callback has not run
    lastLine,      \* the last line given to sanitizeTags
    sanitized,     \* what sanitizeTags returned for it
    lines,         \* 'line' events handled
    queries,       \* cli 'ready' events handled
    printedLines,  \* result lines the last cli 'ready' listener printed
    errorsCaught,  \* exceptions of tagsFinder.process the cli 'ready' listener caught
    prompts,       \* prompt() calls
    exited         \* process.exit(1) was called

appVars ==
    <<defaultsFile, defaultTags, defaultReads, lastLine, sanitized, lines, queries,
      printedLines, errorsCaught, prompts, exited>>

vars == <<loaderVars, finderVars, appVars>>

\* What reading and parsing a file ends in.
FileFates == {"ok", "readerr", "parseerr"}

RECURSIVE SeqsUpTo(_, _)
SeqsUpTo(S, n) ==
    IF n = 0 THEN {<<>>}
    ELSE LET shorter == SeqsUpTo(S, n - 1)
         IN shorter \cup {Append(q, x) : q \in {r \in shorter : Len(r) = n - 1}, x \in S}

\* The directories: unreadable, or holding 0..MaxFiles files.
Dirs ==
    {[err |-> TRUE, files |-> <<>>]}
        \cup {[err |-> FALSE, files |-> fs] : fs \in SeqsUpTo(FileFates, MaxFiles)}

Event(type, msg, arg) == [type |-> type, msg |-> msg, data |-> arg]

ReadyEvent(objects) == Event("ready", "", objects)

FatalEvent(msg) == Event("fatal", msg, <<>>)

ErrorEvent(msg) == Event("error", msg, <<>>)

\* JSON.parse of the i-th file's text.
ParsedObject(i) == DocList[((i - 1) % Len(DocList)) + 1]

LoaderInit ==
    /\ dir \in Dirs
    /\ cache = <<>>
    /\ cacheReady = FALSE
    /\ filesToProcessCount = 0
    /\ filesProcessedCount = 0
    /\ safety = 0
    /\ timers = <<>>
    /\ readdirs = 0
    /\ scheduled = [i \in 1..(MaxFiles) |-> 0]
    /\ reading = [i \in 1..(MaxFiles) |-> 0]
    /\ events = <<>>
    /\ calls = 0
    /\ cycles = 0
    /\ waiting = FALSE
    /\ threw = FALSE

\* The 'ready' and 'fatal' events among evs.
Terminal(evs) == SelectSeq(evs, LAMBDA e : e.type \in {"ready", "fatal"})

\* What a step makes of waiting: a 'ready' or 'fatal' it emits answers every
\* loadFiles call made so far, this step's included; a call that emits neither
\* is left waiting.
Answered ==
    waiting' = IF Terminal(events') # Terminal(events) THEN FALSE
               ELSE IF calls' # calls THEN TRUE
               ELSE waiting

\* clearTimeout(handle): the timer no longer fires; a fired, cleared or
\* undefined handle is ignored.
ClearTimeout(pending, handle) ==
    SelectSeq(pending, LAMBDA h : h # handle)

\* The listener without line 58: cacheReady is never set.
OnFileProcessedNoReadyFlag(ev, isSuccess, object) ==
    LET pushed == IF isSuccess THEN Append(cache, object) ELSE cache
        count == filesProcessedCount + 1
        done == filesToProcessCount = count
    IN /\ cache' = pushed
       /\ filesProcessedCount' = count
       /\ events' = IF done THEN Append(ev, ReadyEvent(pushed)) ELSE ev
       /\ timers' = IF done THEN ClearTimeout(timers, safety) ELSE timers
       /\ cacheReady' = cacheReady

\* The 'fileprocessed' listener (constructor), run after the events ev that the
\* readFile callback has emitted before it.
OnFileProcessed(ev, isSuccess, object) ==
    LET pushed == IF isSuccess THEN Append(cache, object) ELSE cache
        count == filesProcessedCount + 1
        done == filesToProcessCount = count
    IN /\ cache' = pushed
       /\ filesProcessedCount' = count
       /\ events' = IF done THEN Append(ev, ReadyEvent(pushed)) ELSE ev
       /\ timers' = IF done THEN ClearTimeout(timers, safety) ELSE timers
       /\ cacheReady' = IF done THEN TRUE ELSE cacheReady

\* loadFiles(): re-emits 'ready' once the cache is ready; otherwise starts the
\* safety timer (overwriting this.safety) and lists the directory.
LoadFiles ==
    /\ ~threw
    /\ calls < MaxLoadCalls
    /\ calls' = calls + 1
    /\ IF cacheReady
       THEN /\ events' = Append(events, ReadyEvent(cache))
            /\ UNCHANGED <<safety, timers, readdirs, cycles>>
       ELSE /\ safety' = cycles + 1
            /\ timers' = Append(timers, cycles + 1)
            /\ readdirs' = readdirs + 1
            /\ cycles' = cycles + 1
            /\ UNCHANGED events
    /\ UNCHANGED <<finderVars, appVars>>
    /\ UNCHANGED <<dir, cache, cacheReady, filesToProcessCount, filesProcessedCount,
                   scheduled, reading, threw>>
    /\ Answered

\* The safety timer's callback without its emit: the timer expires silently.
SafetyTimeoutSilent ==
    /\ ~threw
    /\ timers # <<>>
    /\ timers' = Tail(timers)
    /\ UNCHANGED <<finderVars, appVars>>
    /\ UNCHANGED <<dir, cache, cacheReady, filesToProcessCount, filesProcessedCount,
                   safety, readdirs, scheduled, reading, events, calls, cycles, threw>>
    /\ Answered

\* The safety timer's callback: 'fatal', whatever the loader's state.
SafetyTimeout ==
    /\ ~threw
    /\ timers # <<>>
    /\ timers' = Tail(timers)
    /\ events' = Append(events, FatalEvent("Timeout for reading files reached"))
    /\ UNCHANGED <<finderVars, appVars>>
    /\ UNCHANGED <<dir, cache, cacheReady, filesToProcessCount, filesProcessedCount,
                   safety, readdirs, scheduled, reading, calls, cycles, threw>>
    /\ Answered

\* The checks of the readdir callback with `files.length < 0` for `< 1`: an
\* empty listing is let through.
ListingFatalsEmptyUnchecked(err, files) ==
    (IF err THEN <<FatalEvent("Unable to load files from path")>> ELSE <<>>)
        \o (IF err \/ Len(files) < 0
            THEN <<FatalEvent("No files found in data folder")>>
            ELSE <<>>)

\* The 'fatal' events of the readdir callback: neither `if` returns, and files
\* is undefined when err is set.
ListingFatals(err, files) ==
    (IF err THEN <<FatalEvent("Unable to load files from path")>> ELSE <<>>)
        \o (IF err \/ Len(files) < 1
            THEN <<FatalEvent("No files found in data folder")>>
            ELSE <<>>)

\* The readdir callback: the fatal events, then files.length (a TypeError when
\* files is undefined), then one setTimeout(.., 0) per file.
ReaddirCallback ==
    /\ ~threw
    /\ readdirs > 0
    /\ readdirs' = readdirs - 1
    /\ events' = events \o ListingFatals(dir.err, dir.files)
    /\ IF dir.err
       THEN /\ threw' = TRUE
            /\ UNCHANGED <<filesToProcessCount, scheduled>>
       ELSE /\ filesToProcessCount' = Len(dir.files)
            /\ scheduled' = [i \in DOMAIN scheduled |->
                                scheduled[i] + (IF i <= Len(dir.files) THEN 1 ELSE 0)]
            /\ UNCHANGED threw
    /\ UNCHANGED <<finderVars, appVars>>
    /\ UNCHANGED <<dir, cache, cacheReady, filesProcessedCount, safety, timers,
                   reading, calls, cycles>>
    /\ Answered

\* The setTimeout(.., 0) callback of file i: fs.readFile is started.
StartRead(i) ==
    /\ ~threw
    /\ scheduled[i] > 0
    /\ scheduled' = [scheduled EXCEPT ![i] = @ - 1]
    /\ reading' = [reading EXCEPT ![i] = @ + 1]
    /\ UNCHANGED <<finderVars, appVars>>
    /\ UNCHANGED <<dir, cache, cacheReady, filesToProcessCount, filesProcessedCount,
                   safety, timers, readdirs, events, calls, cycles, threw>>
    /\ Answered

\* The readFile callback without 'fileprocessed' in the catch branch: a file
\* that does not parse is reported and never counted.
ReadFileCallbackParseErrorUncounted(i) ==
    /\ ~threw
    /\ reading[i] > 0
    /\ reading' = [reading EXCEPT ![i] = @ - 1]
    /\ CASE dir.files[i] = "readerr" ->
              OnFileProcessed(Append(events, ErrorEvent("Error reading file")),
                              FALSE, Null)
         [] dir.files[i] = "parseerr" ->
              /\ events' = Append(events, ErrorEvent("Error parsing file"))
              /\ UNCHANGED <<cache, filesProcessedCount, timers, cacheReady>>
         [] OTHER -> OnFileProcessed(events, TRUE, ParsedObject(i))
    /\ UNCHANGED <<finderVars, appVars>>
    /\ UNCHANGED <<dir, filesToProcessCount, safety, readdirs, scheduled, calls,
                   cycles, threw>>
    /\ Answered

\* The readFile callback of file i: 'error' on a read or parse failure, and
\* 'fileprocessed' in every branch.
ReadFileCallback(i) ==
    /\ ~threw
    /\ reading[i] > 0
    /\ reading' = [reading EXCEPT ![i] = @ - 1]
    /\ CASE dir.files[i] = "readerr" ->
              OnFileProcessed(Append(events, ErrorEvent("Error reading file")),
                              FALSE, Null)
         [] dir.files[i] = "parseerr" ->
              OnFileProcessed(Append(events, ErrorEvent("Error parsing file")),
                              FALSE, Null)
         [] OTHER -> OnFileProcessed(events, TRUE, ParsedObject(i))
    /\ UNCHANGED <<finderVars, appVars>>
    /\ UNCHANGED <<dir, filesToProcessCount, safety, readdirs, scheduled, calls,
                   cycles, threw>>
    /\ Answered

\* ---------------------------------------------------------- the TagsFinder

\* The tags asked for: two that occur in the documents, one that occurs in
\* none, and one that names a member of Object.prototype.
TagList ==
    << <<"a">>, <<"a", "b">>, <<"b", "b">>,
       <<"v", "a", "l", "u", "e", "O", "f">> >>

Tags == {TagList[i] : i \in DOMAIN TagList}

\* Property names every object inherits from Object.prototype (those among Tags).
ObjectPrototypeKeys == {<<"v", "a", "l", "u", "e", "O", "f">>}

\* An inherited member of Object.prototype (a function) where a count is
\* expected: not a number, and every comparison with it is false.
NativeFunction == -1

\* Sanitized tag lists: no duplicate, no empty tag.
TagSeqs == {q \in SeqsUpTo(Tags, MaxTags) : \A i, j \in DOMAIN q : i # j => q[i] # q[j]}

\* The arrays of documents setData may be given: up to MaxDocs documents of
\* consecutive files.
Corpora ==
    {Arr(SubSeq(DocList, p[1], p[1] + p[2] - 1)) :
        p \in {q \in (1..Len(DocList)) \X (0..MaxDocs) : q[1] + q[2] - 1 <= Len(DocList)}}

\* Values that are not arrays of documents.
NotCorpora == {Undefined, Null, Num(0), Str(<<>>), Str(<<"a">>), Obj(<<>>, <<>>)}

\* !v
IsFalsy(v) ==
    \/ v.t \in {"undefined", "null"}
    \/ v.t \in {"number", "boolean"} /\ v.n = 0
    \/ v.t = "string" /\ v.s = <<>>

\* typeof v
TypeOf(v) ==
    IF v.t \in {"object", "array", "null"} THEN "object" ELSE v.t

\* str.indexOf(tag): the first position (from 0) of tag in str, or -1.
RECURSIVE IndexOfFrom(_, _, _)
IndexOfFrom(str, tag, i) ==
    IF i + Len(tag) > Len(str) THEN -1
    ELSE IF SubSeq(str, i + 1, i + Len(tag)) = tag THEN i
    ELSE IndexOfFrom(str, tag, i + 1)

IndexOf(str, tag) == IndexOfFrom(str, tag, 0)

\* obj[key] for every key that `for (var key in obj)` enumerates, in order: the
\* members of an object, the elements of an array, the characters of a string
\* and nothing for null, a number or a boolean.  (obj.hasOwnProperty(key) holds
\* for each of them: no key of the documents is named hasOwnProperty.)
OwnValues(obj) ==
    CASE obj.t \in {"object", "array"} -> obj.c
      [] obj.t = "string" -> [i \in 1..Len(obj.s) |-> Str(<<obj.s[i]>>)]
      [] OTHER -> <<>>

\* The innermost loop of _processObject: results[tag] += 1 for every tag the
\* string holds.
RECURSIVE CountTags(_, _, _, _)
CountTags(tags, str, results, i) ==
    IF i > Len(tags) THEN results
    ELSE CountTags(tags, str,
                   IF IndexOf(str, tags[i]) > -1
                   THEN [results EXCEPT ![tags[i]] = @ + 1]
                   ELSE results,
                   i + 1)

\* _processObject(tags, obj, results); the value returned is results as the
\* call leaves it.  ProcessValues is its loop, from the i-th enumerated key on.
RECURSIVE ProcessObject(_, _, _)
RECURSIVE ProcessValues(_, _, _, _)
ProcessValues(tags, vals, results, i) ==
    IF i > Len(vals) THEN results
    ELSE LET v == vals[i]
             after ==
                 IF TypeOf(v) = "object"
                 THEN ProcessObject(tags, v, results)
                 ELSE IF v.t = "array"
                 THEN results  \* unreachable: typeof of an array is 'object'
                 ELSE IF TypeOf(v) = "string"
                 THEN CountTags(tags, v.s, results, 1)
                 ELSE results
         IN ProcessValues(tags, vals, after, i + 1)

ProcessObject(tags, obj, results) == ProcessValues(tags, OwnValues(obj), results, 1)

\* The lookup loop of process: _processObject on every object of this.data.
RECURSIVE Lookup(_, _, _, _)
Lookup(tags, objects, results, i) ==
    IF i > Len(objects) THEN results
    ELSE Lookup(tags, objects, ProcessObject(tags, objects[i], results), i + 1)

\* The objects the lookup loop hands to _processObject: every object of
\* this.data, whatever tagsToProcess holds (the loop has no guard).
Visited(objects) == Len(objects)

\* a < b on counts.
JsLess(a, b) == a # NativeFunction /\ b # NativeFunction /\ a < b

\* The comparator of process, function(a, b) { return a.count < b.count; }, as
\* sort reads it: ToNumber of a boolean, 1 or 0, never negative.
SortCompare(a, b) == IF JsLess(a.count, b.count) THEN 1 ELSE 0

\* Array.prototype.sort of V8 7.0 and later (Node 11 and later), third_party/v8
\* array-sort.tq, for fewer than 64 elements: the leading run (reversed when
\* strictly descending), then a binary insertion of every later element.
RECURSIVE RunEnd(_, _, _)
RunEnd(arr, descending, idx) ==
    IF idx > Len(arr) THEN Len(arr)
    ELSE LET order == SortCompare(arr[idx], arr[idx - 1])
         IN IF (descending /\ order >= 0) \/ (~descending /\ order < 0)
            THEN idx - 1
            ELSE RunEnd(arr, descending, idx + 1)

Reverse(arr) == [i \in 1..Len(arr) |-> arr[Len(arr) + 1 - i]]

\* The insertion point of pivot among arr[1..n], positions from 0.
RECURSIVE BinarySearch(_, _, _, _)
BinarySearch(arr, pivot, left, right) ==
    IF left >= right THEN left
    ELSE LET mid == left + ((right - left) \div 2)
         IN IF SortCompare(pivot, arr[mid + 1]) < 0
            THEN BinarySearch(arr, pivot, left, mid)
            ELSE BinarySearch(arr, pivot, mid + 1, right)

RECURSIVE BinaryInsertionSort(_, _)
BinaryInsertionSort(arr, start) ==
    IF start > Len(arr) THEN arr
    ELSE LET pivot == arr[start]
             at == BinarySearch(arr, pivot, 0, start - 1)
             moved == SubSeq(arr, 1, at) \o <<pivot>> \o SubSeq(arr, at + 1, start - 1)
                          \o SubSeq(arr, start + 1, Len(arr))
         IN BinaryInsertionSort(moved, start + 1)

TimSort(arr) ==
    IF Len(arr) < 2 THEN arr
    ELSE LET descending == SortCompare(arr[2], arr[1]) < 0
             run == RunEnd(arr, descending, 3)
             made == IF descending
                     THEN Reverse(SubSeq(arr, 1, run)) \o SubSeq(arr, run + 1, Len(arr))
                     ELSE arr
         IN BinaryInsertionSort(made, run + 1)

\* Array.prototype.sort of V8 before 7.0 (Node 10 and earlier), array.js, for at
\* most 10 elements: an insertion sort that moves an element left past every
\* element the comparator puts after it.
RECURSIVE InsertLeft(_, _, _)
InsertLeft(arr, element, j) ==
    IF j >= 1 /\ SortCompare(arr[j], element) > 0
    THEN InsertLeft([arr EXCEPT ![j + 1] = arr[j]], element, j - 1)
    ELSE [arr EXCEPT ![j + 1] = element]

RECURSIVE InsertionSort(_, _)
InsertionSort(arr, i) ==
    IF i > Len(arr) THEN arr
    ELSE InsertionSort(InsertLeft(arr, arr[i], i - 1), i + 1)

SortImpls == {"timsort", "insertion"}

\* results.sort(comparator) under either engine.
ArraySort(arr) ==
    IF sortImpl = "timsort" THEN TimSort(arr) ELSE InsertionSort(arr, 2)

\* if(this.cache[tag]): an own count other than 0, or an inherited member.
CacheHit(tag) ==
    IF tag \in DOMAIN tagsCache THEN tagsCache[tag] # 0
    ELSE tag \in ObjectPrototypeKeys

\* this.cache[tag], when it is truthy.
CacheValue(tag) ==
    IF tag \in DOMAIN tagsCache THEN tagsCache[tag] ELSE NativeFunction

\* The tags of process that the cache answers, and those left to look up.
CachedTags(tags) == SelectSeq(tags, LAMBDA tag : CacheHit(tag))

TagsToProcess(tags) == SelectSeq(tags, LAMBDA tag : ~CacheHit(tag))

\* tmpResults after the lookup loop.
TmpResults(tags) ==
    LET todo == TagsToProcess(tags)
    IN Lookup(todo, data.c, [tag \in {todo[i] : i \in DOMAIN todo} |-> 0], 1)

\* results before the sort, tmp being tmpResults after the lookup loop: the
\* cached tags, then the tags looked up.
Results(tags, tmp) ==
    LET hits == CachedTags(tags)
        todo == TagsToProcess(tags)
    IN [i \in DOMAIN hits |-> [tag |-> hits[i], count |-> CacheValue(hits[i])]]
           \o [i \in DOMAIN todo |-> [tag |-> todo[i], count |-> tmp[todo[i]]]]

\* The cache after a process that also counts its hits: `this.cache[tag]++`
\* where the cached count is read.
CacheAfterCountingHits(tags, tmp) ==
    LET hits == CachedTags(tags)
    IN [tag \in DOMAIN tagsCache \cup DOMAIN tmp |->
           IF tag \in DOMAIN tmp THEN tmp[tag]
           ELSE IF tag \in {hits[i] : i \in DOMAIN hits} THEN tagsCache[tag] + 1
           ELSE tagsCache[tag]]

\* this.cache after process has stored the counts looked up, tmp being
\* tmpResults after the lookup loop.
CacheAfter(tags, tmp) ==
    [tag \in DOMAIN tagsCache \cup DOMAIN tmp |->
        IF tag \in DOMAIN tmp THEN tmp[tag] ELSE tagsCache[tag]]

\* The cache is warm for the tags, tmp being tmpResults after the lookup loop:
\* the loop found nothing, every tag being answered by the cache or held by no
\* string of this.data.
WarmFor(tags, tmp) == \A tag \in DOMAIN tmp : tmp[tag] = 0

FinderInit ==
    /\ data = Undefined
    /\ tagsCache = <<>>
    /\ sortImpl \in SortImpls
    /\ lastOp = "new"
    /\ lastTags = <<>>
    /\ lastResult = <<>>
    /\ lastWarm = FALSE
    /\ lastLooked = <<>>
    /\ lastVisited = 0
    /\ sets = 0

\* What a call that is not a process call, or a process call that throws, leaves
\* in the record of the last process call: nothing.
NoProcessCall ==
    /\ lastTags' = <<>>
    /\ lastResult' = <<>>
    /\ lastWarm' = FALSE
    /\ lastLooked' = <<>>
    /\ lastVisited' = 0

\* setData with the assignment before the check: a value that is not an array
\* is stored, then the error is thrown.
SetDataCallAssignsFirst(v) ==
    /\ IF IsFalsy(v) \/ v.t # "array"
       THEN /\ data' = v
            /\ lastOp' = "setData threw"
            /\ UNCHANGED sets
       ELSE /\ sets < MaxSetData
            /\ data' = v
            /\ sets' = sets + 1
            /\ lastOp' = "setData"
    /\ NoProcessCall
    /\ UNCHANGED <<tagsCache, sortImpl>>

\* A call tagsFinder.setData(v): throws unless v is an array; the cache is left
\* as it is.
SetDataCall(v) ==
    /\ IF IsFalsy(v) \/ v.t # "array"
       THEN /\ lastOp' = "setData threw"
            /\ UNCHANGED <<data, sets>>
       ELSE /\ sets < MaxSetData
            /\ data' = v
            /\ sets' = sets + 1
            /\ lastOp' = "setData"
    /\ NoProcessCall
    /\ UNCHANGED <<tagsCache, sortImpl>>

\* A call tagsFinder.process(tags): throws without data; otherwise answers from
\* the cache, looks up the other tags, stores their counts and sorts.
ProcessCall(tags) ==
    IF IsFalsy(data)
    THEN /\ lastOp' = "process threw"
         /\ NoProcessCall
         /\ UNCHANGED <<data, tagsCache, sortImpl, sets>>
    ELSE LET tmp == TmpResults(tags)
         IN /\ lastOp' = "process"
            /\ lastTags' = tags
            /\ lastResult' = ArraySort(Results(tags, tmp))
            /\ lastWarm' = WarmFor(tags, tmp)
            /\ lastLooked' = TagsToProcess(tags)
            /\ lastVisited' = Visited(data.c)
            /\ tagsCache' = CacheAfter(tags, tmp)
            /\ UNCHANGED <<data, sortImpl, sets>>

\* setData(v), called on the TagsFinder alone.
SetData(v) == SetDataCall(v) /\ UNCHANGED <<loaderVars, appVars>>

\* process(tags), called on the TagsFinder alone.
Process(tags) == ProcessCall(tags) /\ UNCHANGED <<loaderVars, appVars>>

FinderNext ==
    \/ \E v \in Corpora \cup NotCorpora : SetData(v)
    \/ \E tags \in TagSeqs : Process(tags)

\* ----------------------------------------------------------- the front end

\* The characters a terminal line is made of here: a letter, a blank, the comma.
LineChars == {"a", " ", ","}

\* The lines sanitizeTags is tried on: every line of at most MaxLineLen characters.
Lines == SeqsUpTo(LineChars, MaxLineLen)

\* The lines typed at the prompt of a run: empty, one tag, two tags the second
\* of which the corpus holds, the same tag twice (once with a blank before it),
\* and a member of Object.prototype.
QueryLines ==
    { <<>>,
      <<"a">>,
      <<"b", "b", ",", "a">>,
      <<" ", "a", ",", "a">>,
      <<"v", "a", "l", "u", "e", "O", "f">> }

\* The default tags file: unreadable, empty, or two lines "a" and "ab".
DefaultsFiles ==
    { [err |-> TRUE, text |-> <<>>],
      [err |-> FALSE, text |-> <<>>],
      [err |-> FALSE, text |-> <<"a", "\n", "a", "b", "\n">>] }

\* Characters String.prototype.trim removes (those that occur here).
WhiteSpace == {" ", "\t", "\n", "\r"}

\* str.split(sep), sep one character: the pieces between the separators, from
\* the i-th character on, cur being the piece under way.
RECURSIVE SplitFrom(_, _, _, _)
SplitFrom(str, sep, i, cur) ==
    IF i > Len(str) THEN <<cur>>
    ELSE IF str[i] = sep THEN <<cur>> \o SplitFrom(str, sep, i + 1, <<>>)
    ELSE SplitFrom(str, sep, i + 1, Append(cur, str[i]))

Split(str, sep) == SplitFrom(str, sep, 1, <<>>)

RECURSIVE TrimStart(_)
TrimStart(str) ==
    IF str # <<>> /\ Head(str) \in WhiteSpace THEN TrimStart(Tail(str)) ELSE str

RECURSIVE TrimEnd(_)
TrimEnd(str) ==
    IF str # <<>> /\ str[Len(str)] \in WhiteSpace
    THEN TrimEnd(SubSeq(str, 1, Len(str) - 1))
    ELSE str

\* item.trim()
Trim(str) == TrimEnd(TrimStart(str))

\* Array.from(new Set(items)): the first occurrence of every item, in order.
RECURSIVE UniqueFrom(_, _, _)
UniqueFrom(items, i, acc) ==
    IF i > Len(items) THEN acc
    ELSE UniqueFrom(items, i + 1,
                    IF \E j \in DOMAIN acc : acc[j] = items[i]
                    THEN acc
                    ELSE Append(acc, items[i]))

\* sanitizeTags(inputTags): nothing for a falsy input (the empty string is the
\* one the callers pass); otherwise the duplicates are removed, then every item
\* is trimmed and the empty ones are dropped.
SanitizeTags(inputTags) ==
    IF inputTags = <<>> THEN <<>>
    ELSE LET uniqueTags == UniqueFrom(inputTags, 1, <<>>)
             trimmed == [i \in DOMAIN uniqueTags |-> Trim(uniqueTags[i])]
         IN SelectSeq(trimmed, LAMBDA item : item # <<>>)

\* inputLine && inputLine.split(',')
CliInputTags(inputLine) ==
    IF inputLine = <<>> THEN <<>> ELSE Split(inputLine, ",")

\* data && data.toString().split('\n'), data the Buffer of the file (truthy).
FileInputTags(text) == Split(text, "\n")

FrontEndInit ==
    /\ defaultsFile \in DefaultsFiles
    /\ defaultTags = [set |-> FALSE, tags |-> <<>>]
    /\ defaultReads = 0
    /\ lastLine = <<>>
    /\ sanitized = <<>>
    /\ lines = 0
    /\ queries = 0
    /\ printedLines = 0
    /\ errorsCaught = 0
    /\ prompts = 0
    /\ exited = FALSE

\* sanitizeTags on a line, outside a run of the front end.
Sanitize(inputLine) ==
    /\ lastLine' = inputLine
    /\ sanitized' = SanitizeTags(CliInputTags(inputLine))
    /\ UNCHANGED <<defaultsFile, defaultTags, defaultReads, lines, queries,
                   printedLines, errorsCaught, prompts, exited>>
    /\ UNCHANGED <<loaderVars, finderVars>>

\* The cli 'ready' listener without its try/catch: the exception of
\* tagsFinder.process reaches the uncaughtException handler, which exits.
CliReadyUncaught(tags) ==
    /\ ProcessCall(tags)
    /\ queries' = queries + 1
    /\ IF lastOp' = "process threw"
       THEN /\ exited' = TRUE
            /\ UNCHANGED <<printedLines, errorsCaught, prompts>>
       ELSE /\ printedLines' = Len(lastResult')
            /\ prompts' = prompts + 1
            /\ UNCHANGED <<errorsCaught, exited>>

\* The cli 'ready' listener: tagsFinder.process(tags) and one line per result,
\* or the exception caught and logged; then the prompt.
CliReady(tags) ==
    /\ ProcessCall(tags)
    /\ queries' = queries + 1
    /\ IF lastOp' = "process threw"
       THEN /\ printedLines' = 0
            /\ errorsCaught' = errorsCaught + 1
       ELSE /\ printedLines' = Len(lastResult')
            /\ UNCHANGED errorsCaught
    /\ prompts' = prompts + 1
    /\ UNCHANGED exited

\* The module's last statement: jsonLoader.loadFiles(), once, before any event.
Main ==
    /\ ~exited
    /\ calls = 0
    /\ LoadFiles

\* The setTimeout(.., 0) callback of file i, in a run of the front end.
AppStartRead(i) ==
    /\ ~exited
    /\ StartRead(i)

\* The safety timer's callback with the front end's 'fatal' listener: the
\* process exits.
AppSafetyTimeout ==
    /\ ~exited /\ ~threw
    /\ timers # <<>>
    /\ timers' = Tail(timers)
    /\ events' = Append(events, FatalEvent("Timeout for reading files reached"))
    /\ exited' = TRUE
    /\ UNCHANGED finderVars
    /\ UNCHANGED <<defaultsFile, defaultTags, defaultReads, lastLine, sanitized, lines,
                   queries, printedLines, errorsCaught, prompts>>
    /\ UNCHANGED <<dir, cache, cacheReady, filesToProcessCount, filesProcessedCount,
                   safety, readdirs, scheduled, reading, calls, cycles, threw>>
    /\ Answered

\* The readdir callback with the front end's 'fatal' listener: the first
\* 'fatal' exits the process, and nothing after that emit is run.
AppReaddirCallback ==
    /\ ~exited /\ ~threw
    /\ readdirs > 0
    /\ readdirs' = readdirs - 1
    /\ IF ListingFatals(dir.err, dir.files) # <<>>
       THEN /\ events' = Append(events, Head(ListingFatals(dir.err, dir.files)))
            /\ exited' = TRUE
            /\ UNCHANGED <<filesToProcessCount, scheduled>>
       ELSE /\ filesToProcessCount' = Len(dir.files)
            /\ scheduled' = [i \in DOMAIN scheduled |->
                                scheduled[i] + (IF i <= Len(dir.files) THEN 1 ELSE 0)]
            /\ UNCHANGED <<events, exited>>
    /\ UNCHANGED finderVars
    /\ UNCHANGED <<defaultsFile, defaultTags, defaultReads, lastLine, sanitized, lines,
                   queries, printedLines, errorsCaught, prompts>>
    /\ UNCHANGED <<dir, cache, cacheReady, filesProcessedCount, safety, timers,
                   reading, calls, cycles, threw>>
    /\ Answered

\* The readFile callback of file i with the front end's listeners: 'error' is
\* logged, and 'ready' hands the loader's cache (the array itself) to
\* tagsFinder.setData and prompts.
AppReadFileCallback(i) ==
    /\ ~exited /\ ~threw
    /\ reading[i] > 0
    /\ reading' = [reading EXCEPT ![i] = @ - 1]
    /\ CASE dir.files[i] = "readerr" ->
              OnFileProcessed(Append(events, ErrorEvent("Error reading file")),
                              FALSE, Null)
         [] dir.files[i] = "parseerr" ->
              OnFileProcessed(Append(events, ErrorEvent("Error parsing file")),
                              FALSE, Null)
         [] OTHER -> OnFileProcessed(events, TRUE, ParsedObject(i))
    /\ IF Terminal(events') # Terminal(events)
       THEN /\ SetDataCall(Arr(cache'))
            /\ prompts' = prompts + 1
       ELSE /\ UNCHANGED <<finderVars, prompts>>
    /\ UNCHANGED <<defaultsFile, defaultTags, defaultReads, lastLine, sanitized, lines,
                   queries, printedLines, errorsCaught, exited>>
    /\ UNCHANGED <<dir, filesToProcessCount, safety, readdirs, scheduled, calls,
                   cycles, threw>>
    /\ Answered

\* The 'line' listener: the line is split and sanitized; its tags, or the
\* default tags once read, go to the cli 'ready' listener at once; otherwise the
\* default tags file is read.
Line(inputLine) ==
    /\ ~exited /\ ~threw
    /\ calls > 0
    /\ lines < MaxLines
    /\ lines' = lines + 1
    /\ lastLine' = inputLine
    /\ sanitized' = SanitizeTags(CliInputTags(inputLine))
    /\ IF Len(sanitized') > 0
       THEN CliReady(sanitized') /\ UNCHANGED defaultReads
       ELSE IF defaultTags.set
       THEN CliReady(defaultTags.tags) /\ UNCHANGED defaultReads
       ELSE /\ defaultReads' = defaultReads + 1
            /\ UNCHANGED <<finderVars, queries, printedLines, errorsCaught, prompts,
                           exited>>
    /\ UNCHANGED <<defaultsFile, defaultTags>>
    /\ UNCHANGED loaderVars

\* The readFile callback of the default tags file: the cli 'error' listener
\* (log and prompt) when the read failed; otherwise the sanitized lines are kept
\* as defaultTags (`length < 0` never holds) and go to the cli 'ready' listener.
DefaultTagsCallback ==
    /\ ~exited /\ ~threw
    /\ defaultReads > 0
    /\ defaultReads' = defaultReads - 1
    /\ IF defaultsFile.err
       THEN /\ prompts' = prompts + 1
            /\ UNCHANGED <<finderVars, defaultTags, queries, printedLines,
                           errorsCaught, exited>>
       ELSE /\ defaultTags' =
                   [set |-> TRUE, tags |-> SanitizeTags(FileInputTags(defaultsFile.text))]
            /\ CliReady(defaultTags'.tags)
    /\ UNCHANGED <<defaultsFile, lastLine, sanitized, lines>>
    /\ UNCHANGED loaderVars

AppNext ==
    \/ Main
    \/ AppSafetyTimeout
    \/ AppReaddirCallback
    \/ \E i \in 1..MaxFiles : AppStartRead(i)
    \/ \E i \in 1..MaxFiles : AppReadFileCallback(i)
    \/ \E inputLine \in QueryLines : Line(inputLine)
    \/ DefaultTagsCallback

SanitizeNext == \E inputLine \in Lines : Sanitize(inputLine)

LoaderNext ==
    \/ LoadFiles
    \/ SafetyTimeout
    \/ ReaddirCallback
    \/ \E i \in 1..MaxFiles : StartRead(i)
    \/ \E i \in 1..MaxFiles : ReadFileCallback(i)


\* The loader alone, in any directory: no TagsFinder call is made.
LoaderSpecInit ==
    /\ LoaderInit
    /\ FinderInit /\ sortImpl = "timsort"
    /\ FrontEndInit /\ defaultsFile.err

LoaderSpec == LoaderSpecInit /\ [][LoaderNext]_vars

\* The finder alone, under either engine: loadFiles is never called.
FinderSpecInit ==
    /\ LoaderInit /\ dir = [err |-> FALSE, files |-> <<>>]
    /\ FinderInit
    /\ FrontEndInit /\ defaultsFile.err

FinderSpec == FinderSpecInit /\ [][FinderNext]_vars

\* The loader under the one scheduling guarantee the watchdog rests on: a
\* pending 5000 ms timer fires (unless the process is gone).  Nothing is assumed
\* of the I/O: a readdir or readFile callback may never run, and loadFiles need
\* not be called.
LoaderLiveSpecInit == LoaderSpecInit /\ Len(dir.files) <= MaxWatchedFiles

LoaderLiveSpec ==
    /\ LoaderLiveSpecInit
    /\ [][LoaderNext]_vars
    /\ WF_vars(SafetyTimeout)

\* The front end: the loader, the finder (under the sort of Node 11 and later)
\* and the terminal, in any directory and with any default tags file.
AppSpecInit == LoaderInit /\ FinderInit /\ sortImpl = "timsort" /\ FrontEndInit

AppSpec == AppSpecInit /\ [][AppNext]_vars

\* sanitizeTags alone, on every line of at most MaxLineLen characters.
SanitizeSpecInit == FinderSpecInit /\ sortImpl = "timsort"

SanitizeSpec == SanitizeSpecInit /\ [][SanitizeNext]_vars

\* ------------------------------------------------------- what was observed

\* The positions in events of the events of a type.
EventsOf(type) == {i \in DOMAIN events : events[i].type = type}

\* The positions of the 'fatal' events of the safety timer.
Timeouts ==
    {i \in EventsOf("fatal") : events[i].msg = "Timeout for reading files reached"}

\* The positions of the 'fatal' events of the readdir callback.
ListingFailures == EventsOf("fatal") \ Timeouts

\* readdir callbacks that have run.
Listed == cycles - readdirs

\* No file task is waiting for its timer or for its read.
NoTaskPending == \A i \in 1..MaxFiles : scheduled[i] = 0 /\ reading[i] = 0

\* The files of the directory that read and parse.
GoodFiles == {i \in DOMAIN dir.files : dir.files[i] = "ok"}

\* ------------------------------------------------------------------ claims

\* C1 (as claimed): in a single load cycle, once the safety timer has emitted
\* 'fatal', no later step appends to the corpus or emits 'ready'.
C1_FatalDiscardsLateResults ==
    [][(cycles = 1 /\ Timeouts # {})
          => (cache' = cache /\ EventsOf("ready")' = EventsOf("ready"))]_vars

\* C2 (as claimed): every count that process returns, also after setData has
\* replaced the corpus, is the count of that tag over the current corpus alone.
C2_NoStaleCount ==
    lastOp = "process" =>
        \A i \in DOMAIN lastResult :
            lastResult[i].tag \notin ObjectPrototypeKeys =>
                lastResult[i].count
                    = Lookup(<<lastResult[i].tag>>, data.c,
                             [tag \in {lastResult[i].tag} |-> 0], 1)[lastResult[i].tag]

\* The string leaves of a JSON value that hold the tag: the value itself when
\* it is a string, the leaves of the members of an object or array otherwise.
RECURSIVE LeavesWith(_, _)
RECURSIVE LeavesWithFrom(_, _, _)
LeavesWith(v, tag) ==
    CASE v.t = "string" -> IF IndexOf(v.s, tag) > -1 THEN 1 ELSE 0
      [] v.t \in {"object", "array"} -> LeavesWithFrom(v.c, tag, 1)
      [] OTHER -> 0

LeavesWithFrom(vals, tag, i) ==
    IF i > Len(vals) THEN 0
    ELSE LeavesWith(vals[i], tag) + LeavesWithFrom(vals, tag, i + 1)

\* C3 (as claimed): with one corpus ever set, the count process returns for a
\* tag is the number of string leaves of the whole corpus that hold the tag,
\* each leaf counted once, whatever JSON values the documents are.
C3_CountsStringLeaves ==
    (lastOp = "process" /\ sets = 1) =>
        \A i \in DOMAIN lastResult :
            lastResult[i].tag \notin ObjectPrototypeKeys =>
                lastResult[i].count = LeavesWith(data, lastResult[i].tag)

\* C4: in a single load cycle over a listing of N >= 1 files, when every file
\* task has completed and the safety timer has not fired, there is one 'error'
\* per failed file, 'ready' was emitted by the cycle exactly once (and once more
\* per later loadFiles call) with exactly the documents of the good files, no
\* 'fatal' was emitted and no safety timer is left to emit one.
C4_PartialFailureStillReady ==
    (/\ cycles = 1 /\ Listed = 1 /\ NoTaskPending
     /\ ~dir.err /\ Len(dir.files) >= 1
     /\ Timeouts = {})
        => /\ Cardinality(EventsOf("error")) = Len(dir.files) - Cardinality(GoodFiles)
           /\ Cardinality(EventsOf("ready")) = 1 + (calls - cycles)
           /\ \A i \in EventsOf("ready") :
                 /\ Len(events[i].data) = Cardinality(GoodFiles)
                 /\ {events[i].data[j] : j \in DOMAIN events[i].data}
                        = {ParsedObject(f) : f \in GoodFiles}
           /\ EventsOf("fatal") = {}
           /\ timers = <<>>

\* C4: two files, one of which fails, both completed before the timer.
C4_Witness ==
    /\ cycles = 1 /\ Listed = 1 /\ NoTaskPending
    /\ Len(dir.files) = 2 /\ Cardinality(GoodFiles) = 1
    /\ Timeouts = {}
    /\ Cardinality(EventsOf("error")) = 1
    /\ EventsOf("ready") # {}

\* C5 (as claimed): whatever loadFiles calls are made, no 'fatal' is emitted
\* after a 'ready'.
C5_NoFatalAfterReady ==
    \A i \in EventsOf("ready") : \A j \in EventsOf("fatal") : j < i

\* C6 (as claimed): a load cycle emits at most one terminal event, 'ready' or
\* 'fatal', whatever the listing and the interleaving.
C6_OneTerminalOutcome ==
    calls <= 1 => Cardinality(EventsOf("ready") \cup EventsOf("fatal")) <= 1

\* C7: when the listing fails or is empty, every readdir callback that has run
\* has emitted 'fatal', no file task was launched, and 'ready' is not emitted.
C7_ListingFailureIsFatal ==
    (dir.err \/ Len(dir.files) = 0) =>
        /\ Cardinality(ListingFailures) >= Listed
        /\ NoTaskPending
        /\ filesProcessedCount = 0
        /\ EventsOf("ready") = {}

\* C7: an empty directory has been listed.
C7_Witness ==
    /\ ~dir.err /\ Len(dir.files) = 0
    /\ Listed >= 1
    /\ ListingFailures # {}

\* C8: once 'ready' has been emitted, a loadFiles call emits 'ready' with the
\* cache as it is and changes nothing else: no timer, no readdir, no file task,
\* the cache and both counters as they were.
C8_LoadAfterReadyIsIdempotent ==
    [][(EventsOf("ready") # {} /\ calls' = calls + 1)
          => /\ events' = Append(events, ReadyEvent(cache))
             /\ UNCHANGED <<cache, cacheReady, filesToProcessCount, filesProcessedCount,
                            safety, timers, readdirs, scheduled, reading, cycles>>]_vars

\* C8: a second loadFiles call was made after 'ready' and emitted it again.
C8_Witness ==
    /\ calls = 2 /\ cycles = 1
    /\ Cardinality(EventsOf("ready")) = 2
    /\ cache # <<>>

\* C9 (as claimed): the counts of the sequence process returns never increase
\* from one entry to the next.
C9_SortedByCountDescending ==
    lastOp = "process" =>
        \A i \in 1..(Len(lastResult) - 1) :
            (lastResult[i].count # NativeFunction
                 /\ lastResult[i + 1].count # NativeFunction)
                => lastResult[i].count >= lastResult[i + 1].count

\* C10 (as claimed): a process call that follows a process call with the same
\* tags (none of them a member of Object.prototype), on the same corpus, returns
\* the same pairs in the same order.
C10_SameTagsSameResult ==
    [][(/\ lastOp = "process" /\ lastOp' = "process"
        /\ lastTags' = lastTags /\ data' = data
        /\ \A i \in DOMAIN lastTags : lastTags[i] \notin ObjectPrototypeKeys)
          => lastResult' = lastResult]_vars

\* C10: after a process call that found the cache warm for its tags (each
\* answered by the cache or held by no string of the corpus, as after an
\* earlier call with these tags on this corpus), a process call with the same
\* tags, made next on the same corpus, returns what that call returned: the
\* same pairs in the same order.
C10_WarmCacheSameResult ==
    (lastOp = "process" /\ lastWarm)
        => ArraySort(Results(lastTags, TmpResults(lastTags))) = lastResult

\* C10: a warm call for two tags, one held by the corpus and one absent.
C10_Witness ==
    /\ lastOp = "process" /\ lastWarm
    /\ Len(lastResult) = 2
    /\ \E i, j \in DOMAIN lastResult :
          lastResult[i].count = 0 /\ lastResult[j].count > 0

\* C11 (as claimed): with one corpus ever set, a process call looks up no tag
\* for which the cache already holds the count 0: the tag is read from the
\* cache and is not among the tags tested against the strings of the corpus.
C11_ZeroCountIsCached ==
    [][(lastOp' = "process" /\ sets = 1)
          => \A i \in DOMAIN lastLooked' :
                ~(lastLooked'[i] \in DOMAIN tagsCache
                      /\ tagsCache[lastLooked'[i]] = 0)]_vars

\* C12 (as claimed): a process call that has no tag to look up (no tag at all,
\* or every tag answered by the cache) runs _processObject on no object of the
\* corpus, and a call with a tag to look up runs it on every object once.
C12_TraversesOnlyForUncached ==
    lastOp = "process" =>
        /\ lastTags = <<>> => lastResult = <<>>
        /\ lastVisited = IF lastLooked = <<>> THEN 0 ELSE Len(data.c)

\* C13 (as claimed): process returns one entry per tag it was given, no more,
\* each with a count that is an integer >= 0.
C13_OneCountPerTag ==
    lastOp = "process" =>
        /\ Len(lastResult) = Len(lastTags)
        /\ \A i \in DOMAIN lastTags :
              Cardinality({j \in DOMAIN lastResult : lastResult[j].tag = lastTags[i]}) = 1
        /\ \A j \in DOMAIN lastResult :
              lastResult[j].count # NativeFunction /\ lastResult[j].count >= 0

\* C14: a process call made while no corpus is set throws, returns nothing and
\* leaves the cache and this.data as they were; a setData call that throws
\* leaves this.data and the cache as they were, and a setData call that does not
\* throw was given an array.
C14_PreconditionErrorsChangeNothing ==
    [][/\ (lastOp' \in {"process", "process threw"} /\ IsFalsy(data))
            => (lastOp' = "process threw" /\ lastResult' = <<>>
                    /\ UNCHANGED <<data, tagsCache>>)
       /\ lastOp' = "setData threw" => UNCHANGED <<data, tagsCache>>
       /\ lastOp' = "setData" => data'.t = "array"]_vars

\* C14: setData threw while a corpus was set and counts were cached.
C14_Witness ==
    /\ lastOp = "setData threw"
    /\ data.t = "array" /\ data.c # <<>>
    /\ tagsCache # <<>>

\* C15 (as claimed): the corpus handed over with a 'ready' event is the cache
\* ever after: no later step appends to the array the listener was given.
C15_CorpusFrozenAtReady ==
    \A i \in EventsOf("ready") : events[i].data = cache

\* C16 (as claimed): the tags sanitizeTags returns for a line split on commas
\* are all trimmed, all non-empty and pairwise distinct.
C16_SanitizedTags ==
    /\ \A i \in DOMAIN sanitized :
          sanitized[i] = Trim(sanitized[i]) /\ sanitized[i] # <<>>
    /\ \A i, j \in DOMAIN sanitized : i # j => sanitized[i] # sanitized[j]

\* The file tasks of file i that have completed: one was launched by every
\* readdir callback that has run.
CompletedTasks(i) == Listed - scheduled[i] - reading[i]

RECURSIVE SumCompleted(_)
SumCompleted(files) ==
    IF files = {} THEN 0
    ELSE LET i == CHOOSE f \in files : TRUE
         IN CompletedTasks(i) + SumCompleted(files \ {i})

\* C17 (as claimed): filesProcessedCount is the number of file tasks that have
\* completed and never exceeds filesToProcessCount, and the cache holds one
\* object per task that completed successfully.
C17_EveryTaskCountedOnce ==
    /\ filesProcessedCount = SumCompleted(DOMAIN dir.files)
    /\ filesProcessedCount <= filesToProcessCount
    /\ Len(cache) = SumCompleted(GoodFiles)

\* C18: a loadFiles call is followed by a 'ready' or a 'fatal', emitted by the
\* call itself or after it, whether or not the file reads complete.
C18_EveryLoadTerminates == waiting ~> ~waiting

\* C18: the safety timer fired while a file was still being read, and answered
\* the call with 'fatal'.
C18_Witness ==
    /\ calls >= 1 /\ ~waiting
    /\ Timeouts # {}
    /\ EventsOf("ready") = {}
    /\ \E i \in 1..MaxFiles : reading[i] > 0

\* C19: a cli 'ready' listener run, whenever it comes, does not end the
\* process and prompts again; when no corpus is set yet the exception of
\* process is caught, no result line is printed and neither the corpus nor the
\* cache changes; when one is set, one line per result is printed.  A 'line'
\* listener run does not end the process either.
C19_QueryNeverEndsTheProcess ==
    [][/\ queries' # queries
            => /\ ~exited' /\ ~threw'
               /\ prompts' = prompts + 1
               /\ IF IsFalsy(data)
                  THEN /\ errorsCaught' = errorsCaught + 1
                       /\ printedLines' = 0
                       /\ UNCHANGED <<data, tagsCache>>
                  ELSE /\ errorsCaught' = errorsCaught
                       /\ printedLines' = Len(lastTags')
       /\ lines' # lines => (~exited' /\ ~threw')]_vars

\* C19: a query made before 'ready' was caught, and a later query, made after
\* the 'ready' listener has set the corpus, printed its results.
C19_Witness ==
    /\ errorsCaught >= 1
    /\ queries >= 2
    /\ lastOp = "process" /\ printedLines > 0
    /\ ~exited

\* C20 (as claimed): with one corpus ever set, a process call removes no cache
\* entry, changes the value of none, and writes (looks up again) no tag that
\* already has one.
C20_CacheOnlyGrows ==
    [][(lastOp' = "process" /\ sets = 1)
          => \A tag \in DOMAIN tagsCache :
                /\ tag \in DOMAIN tagsCache'
                /\ tagsCache'[tag] = tagsCache[tag]
                /\ \A i \in DOMAIN lastLooked' : lastLooked'[i] # tag]_vars
====
